---- MODULE Spec2Model ----
(***************************************************************************)
(* Rooman-AI-Agent: a retrieval-augmented question answering pipeline.     *)
(*   src/app.py     interactive path: load .txt documents, chunk by words, *)
(*                  embed, retrieve by cosine similarity, build the prompt *)
(*   src/ingest.py  offline path: extract text, chunk by characters with   *)
(*                  overlap, embed, write index / metadata / chunk texts   *)
(* A text is a sequence of one-character strings.                          *)
(***************************************************************************)
EXTENDS Integers, Sequences, FiniteSets, TLC

VARIABLES
    \* ---- direct calls of the two chunkers (inputs of one call) ----
    in_text,        \* argument text
    in_size,        \* argument size (app) / chunk_size (ingest)
    in_overlap,     \* argument overlap (ingest)
    app_pc,         \* app.chunk_text: "off" | "call" | "returned"
    app_result,     \* value returned by app.chunk_text
    ct_pc,          \* ingest.chunk_text: "off" | "call" | "loop" | "returned"
    ct_text,        \* local text after normalisation, ingest.py:52
    ct_start,       \* local start
    ct_chunks,      \* local chunks
    ct_result,      \* value returned by ingest.chunk_text
    \* ---- src/app.py, module level ----
    folder,         \* docs/: whether it exists, its entries as os.listdir yields them
    ui_pc,          \* "off" | "start" | "ready" | "crashed"
    ui_error,       \* exception that ended the start-up, "" when none
    documents,      \* app.py:44
    chunks,         \* app.py:45, the in-memory collection
    query,          \* argument of the last retrieve call
    q_emb,          \* its embedding, app.py:58
    top_k,          \* its top_k
    retrieved,      \* value returned by the last retrieve call
    context_text,   \* context the last generate_answer call put in the prompt
    answered,       \* TRUE when the last step was the UI query handler
    \* ---- src/ingest.py, main ----
    docs_dir,       \* files of docs/ at the last glob, ingest.py:112
    env,            \* USE_GEMINI and GEMINI_API_KEY of the current run
    libs,           \* which optional libraries import: fitz, docx
    m_pc,           \* "off" | "idle" | "loop" | "embed" | "write_index" |
                    \* "write_meta" | "write_chunks" | "done" | "returned" | "raised"
    m_error,        \* exception that ended the run, "" when none
    run,            \* number of the current run of main
    m_i,            \* position of the file loop in files
    all_texts,      \* ingest.py:116
    meta,           \* ingest.py:117
    embed_calls,    \* embedding calls made by the current run
    disk            \* the three artifacts: file -> [run, data] or NoFile

vars == << in_text, in_size, in_overlap, app_pc, app_result, ct_pc, ct_text,
           ct_start, ct_chunks, ct_result, folder, ui_pc, ui_error, documents, chunks,
           query, q_emb, top_k, retrieved, context_text, answered, docs_dir,
           env, libs, m_pc, m_error, run, m_i, all_texts, meta, embed_calls,
           disk >>

chunkVars == << in_text, in_size, in_overlap, app_pc, app_result, ct_pc,
                ct_text, ct_start, ct_chunks, ct_result >>
appVars == << folder, ui_pc, ui_error, documents, chunks, query, q_emb, top_k,
              retrieved, context_text, answered >>
ingestVars == << docs_dir, env, libs, m_pc, m_error, run, m_i, all_texts, meta,
                 embed_calls, disk >>

(***************************************************************************)
(* Bounds of the model                                                     *)
(***************************************************************************)
MaxLen == 5          \* longest text of a direct chunker call
MaxChunk == 2        \* largest size / chunk_size of a direct chunker call
MaxDocs == 2         \* most entries of docs/ in the interactive path
MaxFiles == 2        \* most files of docs/ in the offline path
MaxRuns == 2         \* most runs of ingest.main in one behaviour

(***************************************************************************)
(* Program constants                                                       *)
(***************************************************************************)
DEFAULT_SIZE == 300          \* app.py:33      size=300
CHUNK_SIZE_CHARS == 1200     \* ingest.py:17
CHUNK_OVERLAP == 200         \* ingest.py:18
MIN_TEXT_CHARS == 20         \* ingest.py:120
DEFAULT_TOP_K == 1           \* app.py:57 and app.py:285

(***************************************************************************)
(* Text helpers: str.split, str.strip, str.join, re.sub(r"\s+", " ", .)    *)
(***************************************************************************)
Whitespace == {" ", "\t"}
Letters == {"a", "b"}
Chars == Letters \cup Whitespace

IsSpace(c) == c \in Whitespace

Min(a, b) == IF a <= b THEN a ELSE b

RECURSIVE FirstNonSpace(_, _)
\* index of the first non-whitespace character at or after i, Len(s)+1 if none
FirstNonSpace(s, i) ==
    IF i > Len(s) THEN i
    ELSE IF IsSpace(s[i]) THEN FirstNonSpace(s, i + 1) ELSE i

RECURSIVE LastNonSpace(_, _)
\* index of the last non-whitespace character at or before i, 0 if none
LastNonSpace(s, i) ==
    IF i < 1 THEN 0
    ELSE IF IsSpace(s[i]) THEN LastNonSpace(s, i - 1) ELSE i

\* str.strip(): leading and trailing whitespace removed
Strip(s) == SubSeq(s, FirstNonSpace(s, 1), LastNonSpace(s, Len(s)))

RECURSIVE CollapseRange(_, _, _)
\* re.sub(r"\s+", " ", s) restricted to s[lo..hi]: every maximal run of
\* whitespace becomes one space (the first character of the run is kept as " ")
CollapseRange(s, lo, hi) ==
    IF lo > hi THEN << >>
    ELSE IF lo = hi
         THEN IF IsSpace(s[lo])
              THEN IF lo > 1 /\ IsSpace(s[lo - 1]) THEN << >> ELSE << " " >>
              ELSE << s[lo] >>
         ELSE LET mid == (lo + hi) \div 2
              IN  CollapseRange(s, lo, mid) \o CollapseRange(s, mid + 1, hi)

CollapseWs(s) == CollapseRange(s, 1, Len(s))

\* ingest.py:52   re.sub(r"\s+", " ", text).strip()
Normalize(s) == Strip(CollapseWs(s))

RECURSIVE WordEnd(_, _)
\* index of the last character of the word that holds position i
WordEnd(s, i) ==
    IF i < Len(s) /\ ~IsSpace(s[i + 1]) THEN WordEnd(s, i + 1) ELSE i

RECURSIVE SplitRange(_, _, _)
\* the words of s that start in s[lo..hi], in order
SplitRange(s, lo, hi) ==
    IF lo > hi THEN << >>
    ELSE IF lo = hi
         THEN IF ~IsSpace(s[lo]) /\ (lo = 1 \/ IsSpace(s[lo - 1]))
              THEN << SubSeq(s, lo, WordEnd(s, lo)) >>
              ELSE << >>
         ELSE LET mid == (lo + hi) \div 2
              IN  SplitRange(s, lo, mid) \o SplitRange(s, mid + 1, hi)

\* str.split(): the maximal runs of non-whitespace characters
Split(s) == SplitRange(s, 1, Len(s))

RECURSIVE JoinRange(_, _, _)
JoinRange(ws, lo, hi) ==
    IF lo > hi THEN << >>
    ELSE IF lo = hi THEN ws[lo]
         ELSE LET mid == (lo + hi) \div 2
              IN  JoinRange(ws, lo, mid) \o << " " >> \o JoinRange(ws, mid + 1, hi)

\* " ".join(ws)
Join(ws) == JoinRange(ws, 1, Len(ws))

\* Python slice s[from:to] with 0 <= from, 0-based and end-exclusive
Slice(s, from, to) == SubSeq(s, from + 1, Min(to, Len(s)))

(***************************************************************************)
(* app.chunk_text, app.py:33-39                                            *)
(***************************************************************************)
RECURSIVE WordWindows(_, _, _)
\* the for loop of app.py:36-38 from index i on
WordWindows(words, size, i) ==
    IF i >= Len(words) THEN << >>
    ELSE << Join(Slice(words, i, i + size)) >> \o WordWindows(words, size, i + size)

\* windows one word short (range step and slice of size - 1)
app_chunk_text_short(text, size) == WordWindows(Split(text), size - 1, 0)

app_chunk_text(text, size) == WordWindows(Split(text), size, 0)

(***************************************************************************)
(* ingest.chunk_text, ingest.py:51-64                                      *)
(***************************************************************************)
\* ingest.py:53   the early return
FitsOneChunk(text, chunk_size) == Len(text) <= chunk_size

\* ingest.py:57   the loop condition
LoopCond(text, start) == start < Len(text)

\* a window one character too wide (end = start + chunk_size + 1)
Window_TooWide(text, chunk_size, start) ==
    Strip(Slice(text, start, start + chunk_size + 1))

\* ingest.py:58-60   the chunk of one iteration
Window(text, chunk_size, start) == Strip(Slice(text, start, start + chunk_size))

\* the window moved by the overlap instead of chunk_size - overlap
NextStart_ByOverlap(chunk_size, overlap, start) ==
    LET s == start + overlap
    IN  IF s < 0 THEN 0 ELSE s

\* ingest.py:61-63   the next window start
NextStart(chunk_size, overlap, start) ==
    LET s == (start + chunk_size) - overlap
    IN  IF s < 0 THEN 0 ELSE s

RECURSIVE ChunkLoop(_, _, _, _, _)
ChunkLoop(text, chunk_size, overlap, start, acc) ==
    IF LoopCond(text, start)
    THEN ChunkLoop(text, chunk_size, overlap,
                   NextStart(chunk_size, overlap, start),
                   Append(acc, Window(text, chunk_size, start)))
    ELSE acc

\* the whole function, as main calls it
ingest_chunk_text(raw, chunk_size, overlap) ==
    LET text == Normalize(raw)
    IN  IF FitsOneChunk(text, chunk_size) THEN << text >>
        ELSE ChunkLoop(text, chunk_size, overlap, 0, << >>)

(***************************************************************************)
(* Direct calls of the two chunkers                                        *)
(***************************************************************************)
TextsUpTo(n) == UNION { [1..k -> Chars] : k \in 0..n }

NoChunkCall ==
    /\ in_text = << >> /\ in_size = 1 /\ in_overlap = 0
    /\ app_pc = "off" /\ app_result = << >>
    /\ ct_pc = "off" /\ ct_text = << >> /\ ct_start = 0
    /\ ct_chunks = << >> /\ ct_result = << >>

\* app.py:33-39, the whole call
AppChunkText ==
    /\ app_pc = "call"
    /\ app_result' = app_chunk_text(in_text, in_size)
    /\ app_pc' = "returned"
    /\ UNCHANGED << in_text, in_size, in_overlap, ct_pc, ct_text, ct_start,
                    ct_chunks, ct_result >>
    /\ UNCHANGED << appVars, ingestVars >>

\* ingest.py:52-56; the caller has the result of app.chunk_text by now
CtBegin ==
    /\ ct_pc = "call"
    /\ app_pc = "returned"
    /\ ct_text' = Normalize(in_text)
    /\ ct_start' = 0
    /\ ct_chunks' = << >>
    /\ IF FitsOneChunk(ct_text', in_size)
       THEN ct_result' = << ct_text' >> /\ ct_pc' = "returned"
       ELSE ct_result' = ct_result /\ ct_pc' = "loop"
    /\ UNCHANGED << in_text, in_size, in_overlap, app_pc, app_result >>
    /\ UNCHANGED << appVars, ingestVars >>

\* ingest.py:57-63, one iteration of the while loop
CtIterate ==
    /\ ct_pc = "loop"
    /\ LoopCond(ct_text, ct_start)
    /\ ct_chunks' = Append(ct_chunks, Window(ct_text, in_size, ct_start))
    /\ ct_start' = NextStart(in_size, in_overlap, ct_start)
    /\ UNCHANGED << in_text, in_size, in_overlap, app_pc, app_result, ct_pc,
                    ct_text, ct_result >>
    /\ UNCHANGED << appVars, ingestVars >>

\* ingest.py:57 and 64, the loop exit
CtReturn ==
    /\ ct_pc = "loop"
    /\ ~LoopCond(ct_text, ct_start)
    /\ ct_result' = ct_chunks
    /\ ct_pc' = "returned"
    /\ UNCHANGED << in_text, in_size, in_overlap, app_pc, app_result, ct_text,
                    ct_start, ct_chunks >>
    /\ UNCHANGED << appVars, ingestVars >>

CtNext == CtBegin \/ CtIterate \/ CtReturn

(***************************************************************************)
(* src/app.py: the interactive path                                        *)
(***************************************************************************)
\* a text of n words, "a" and "ba" in turn, one space between words
WordsText(n) ==
    Join([i \in 1..n |-> IF i % 2 = 1 THEN << "a" >> ELSE << "b", "a" >>])

\* contents of the .txt files of the interactive path
AppTexts == { << >>,
              << "a" >>,
              << " ", "a", "\t", "\t", "b", " " >>,
              WordsText(DEFAULT_SIZE),
              WordsText(DEFAULT_SIZE + 1) }

\* what an entry of docs/ can be: a .txt file, another file, a directory
EntryKinds ==
    { [suffix |-> ".txt", isfile |-> TRUE, content |-> c] : c \in AppTexts }
    \cup { [suffix |-> ".md", isfile |-> TRUE, content |-> << "a" >>],
           [suffix |-> ".txt", isfile |-> FALSE, content |-> << >>] }

\* the listings of docs/: entry i is named << i, suffix >>
Folders(n) ==
    UNION { { [i \in 1..k |-> [name |-> << i, kinds[i].suffix >>,
                                isfile |-> kinds[i].isfile,
                                content |-> kinds[i].content]] :
              kinds \in [1..k -> EntryKinds] } : k \in 0..n }

\* docs/ with its entries, or no docs/ at all
AllFolders ==
    { [exists |-> TRUE, entries |-> es] : es \in Folders(MaxDocs) }
    \cup { [exists |-> FALSE, entries |-> << >>] }

\* embeddings of the model: unit vectors, so that the cosine is the dot product
EmbVecs == { << 1, 0 >>, << 0, 1 >>, << -1, 0 >> }

Queries == { << >>, << "b", "?" >> }

NoApp ==
    /\ folder = [exists |-> FALSE, entries |-> << >>]
    /\ ui_pc = "off" /\ ui_error = "" /\ documents = << >> /\ chunks = << >>
    /\ query = << >> /\ q_emb = << 0, 0 >> /\ top_k = 0 /\ retrieved = << >>
    /\ context_text = << >> /\ answered = FALSE

RECURSIVE LoadFrom(_, _)
\* app.py:22-27 from entry i on
LoadFrom(dir, i) ==
    IF i > Len(dir) THEN << >>
    ELSE (IF dir[i].isfile /\ dir[i].name[2] = ".txt"
          THEN << << dir[i].name, dir[i].content >> >>
          ELSE << >>) \o LoadFrom(dir, i + 1)

\* app.py:20-28, for a folder that exists
load_documents(dir) == LoadFrom(dir.entries, 1)

RECURSIVE DocChunks(_, _)
\* app.py:46-52 without the embedding: the (doc, chunk) pairs from document i on
DocChunks(docs, i) ==
    IF i > Len(docs) THEN << >>
    ELSE LET cs == app_chunk_text(docs[i][2], DEFAULT_SIZE)
         IN  [j \in 1..Len(cs) |-> [doc |-> docs[i][1], chunk |-> cs[j]]]
             \o DocChunks(docs, i + 1)

\* sklearn cosine_similarity of two vectors of EmbVecs (unit length)
cosine_similarity(x, y) == x[1] * y[1] + x[2] * y[2]

RECURSIVE InsertDesc(_, _, _)
\* insert index i after every index whose score is >= its own (stable)
InsertDesc(sorted, sims, i) ==
    IF sorted = << >> THEN << i >>
    ELSE IF sims[Head(sorted)] >= sims[i]
         THEN << Head(sorted) >> \o InsertDesc(Tail(sorted), sims, i)
         ELSE << i >> \o sorted

RECURSIVE SortDescFrom(_, _, _)
SortDescFrom(sims, i, acc) ==
    IF i > Len(sims) THEN acc
    ELSE SortDescFrom(sims, i + 1, InsertDesc(acc, sims, i))

RECURSIVE InsertAsc(_, _, _)
InsertAsc(sorted, sims, i) ==
    IF sorted = << >> THEN << i >>
    ELSE IF sims[Head(sorted)] <= sims[i]
         THEN << Head(sorted) >> \o InsertAsc(Tail(sorted), sims, i)
         ELSE << i >> \o sorted

RECURSIVE SortAscFrom(_, _, _)
SortAscFrom(sims, i, acc) ==
    IF i > Len(sims) THEN acc
    ELSE SortAscFrom(sims, i + 1, InsertAsc(acc, sims, i))

\* the sort without reverse=True
SortedIdx_Ascending(sims) == SortAscFrom(sims, 1, << >>)

\* app.py:60   sorted(range(len(sims)), key=lambda i: sims[i], reverse=True)
SortedIdx(sims) == SortDescFrom(sims, 1, << >>)

\* app.py:59
Sims(qe, coll) == [i \in 1..Len(coll) |-> cosine_similarity(qe, coll[i].embedding)]

\* app.py:61   the indices chosen by sorted_idx[:top_k]
TopIdx(qe, coll, k) == Slice(SortedIdx(Sims(qe, coll)), 0, k)

\* app.py:57-61 with q_emb = qe
retrieve(qe, coll, k) ==
    LET idx == TopIdx(qe, coll, k) IN [j \in 1..Len(idx) |-> coll[idx[j]]]

RECURSIVE JoinContexts(_, _)
\* app.py:67   "\n\n".join(c["chunk"] for c in contexts), from context i on
JoinContexts(contexts, i) ==
    IF i > Len(contexts) THEN << >>
    ELSE IF i = Len(contexts) THEN contexts[i].chunk
    ELSE contexts[i].chunk \o << "\n", "\n" >> \o JoinContexts(contexts, i + 1)

ContextText(contexts) == JoinContexts(contexts, 1)

\* app.py:44-52, the module-level start-up: load, chunk, embed
Startup ==
    /\ ui_pc = "start"
    /\ IF ~folder.exists
       THEN \* os.listdir, app.py:22, raises
            /\ ui_pc' = "crashed" /\ ui_error' = "FileNotFoundError"
            /\ UNCHANGED << documents, chunks >>
       ELSE /\ documents' = load_documents(folder)
            /\ LET pairs == DocChunks(documents', 1)
                   texts == { pairs[i].chunk : i \in 1..Len(pairs) }
               IN  \E encode \in [texts -> EmbVecs] :
                     chunks' = [i \in 1..Len(pairs) |->
                                  [doc |-> pairs[i].doc, chunk |-> pairs[i].chunk,
                                   embedding |-> encode[pairs[i].chunk]]]
            /\ ui_pc' = "ready" /\ ui_error' = ui_error
    /\ UNCHANGED << folder, query, q_emb, top_k, retrieved, context_text, answered >>
    /\ UNCHANGED << chunkVars, ingestVars >>

\* app.py:57-61, a call retrieve(q, top_k=k)
Retrieve ==
    /\ ui_pc = "ready"
    /\ \E q \in Queries \ { << >> }, qe \in EmbVecs, k \in 1..(Len(chunks) + 1) :
         /\ query' = q /\ q_emb' = qe /\ top_k' = k
         /\ retrieved' = retrieve(qe, chunks, k)
    /\ context_text' = << >>
    /\ answered' = FALSE
    /\ UNCHANGED << folder, ui_pc, ui_error, documents, chunks >>
    /\ UNCHANGED << chunkVars, ingestVars >>

\* app.py:283-286, the query handler of the UI
UserQuery ==
    /\ ui_pc = "ready"
    /\ \E user_query \in Queries, qe \in EmbVecs :
         /\ user_query # << >>
         /\ query' = user_query /\ q_emb' = qe /\ top_k' = DEFAULT_TOP_K
         /\ retrieved' = retrieve(qe, chunks, DEFAULT_TOP_K)
    /\ context_text' = ContextText(retrieved')
    /\ answered' = TRUE
    /\ UNCHANGED << folder, ui_pc, ui_error, documents, chunks >>
    /\ UNCHANGED << chunkVars, ingestVars >>

AppNext == Startup \/ Retrieve \/ UserQuery

(***************************************************************************)
(* src/ingest.py: the offline indexing path                                *)
(***************************************************************************)
\* n characters, a space at every eighth position, letters elsewhere
CharsText(n) ==
    [i \in 1..n |-> IF i % 8 = 0 THEN " " ELSE IF i % 2 = 1 THEN "a" ELSE "b"]

\* contents of the files of the offline path: 19 characters inside
\* whitespace, exactly 20 characters, one character more than a chunk
IngestTexts == { << " " >> \o CharsText(MIN_TEXT_CHARS - 1) \o << "\t", " " >>,
                 CharsText(MIN_TEXT_CHARS),
                 CharsText(CHUNK_SIZE_CHARS + 1) }

\* what read_text gives for a file that is not plain text
RawBytes == [i \in 1..(MIN_TEXT_CHARS + 1) |-> "b"]

\* what a file of docs/ can be; text is the text a format-aware reader
\* extracts, raw what read_text decodes, readable whether opening it succeeds
FileKinds ==
    { [suffix |-> ".txt", readable |-> TRUE, text |-> t, raw |-> t] :
        t \in IngestTexts }
    \cup { [suffix |-> ".txt", readable |-> FALSE, text |-> << >>, raw |-> << >>],
           [suffix |-> ".pdf", readable |-> FALSE, text |-> << >>, raw |-> << >>],
           [suffix |-> ".docx", readable |-> TRUE,
            text |-> CharsText(MIN_TEXT_CHARS), raw |-> RawBytes] }

\* the results of DOCS_DIR.glob("*"): file i is named << i, suffix >>
DocsDirs(n) ==
    UNION { { [i \in 1..k |-> [name |-> << i, kinds[i].suffix >>,
                                suffix |-> kinds[i].suffix,
                                readable |-> kinds[i].readable,
                                text |-> kinds[i].text,
                                raw |-> kinds[i].raw]] :
              kinds \in [1..k -> FileKinds] } : k \in 0..n }

AllDocsDirs == DocsDirs(MaxFiles)

Envs == [USE_GEMINI : BOOLEAN, GEMINI_API_KEY : BOOLEAN]
Libs == [fitz : BOOLEAN, docx : BOOLEAN]

NoFile == [run |-> 0, data |-> << >>]
Artifacts == { "index", "meta", "chunks" }

NoIngest ==
    /\ docs_dir = << >> /\ env = [USE_GEMINI |-> FALSE, GEMINI_API_KEY |-> FALSE]
    /\ m_pc = "off" /\ m_error = "" /\ run = 0 /\ m_i = 0
    /\ all_texts = << >> /\ meta = << >> /\ embed_calls = 0
    /\ libs = [fitz |-> FALSE, docx |-> FALSE]
    /\ disk = [a \in Artifacts |-> NoFile]

\* ingest.py:21-48; raised is TRUE when the call ends in an exception
extract_text_from_file(path, lib) ==
    IF path.suffix = ".txt"
    THEN [raised |-> ~path.readable, text |-> IF path.readable THEN path.text ELSE << >>]
    ELSE IF path.suffix = ".pdf" /\ lib.fitz
    THEN [raised |-> ~path.readable, text |-> IF path.readable THEN path.text ELSE << >>]
    ELSE IF path.suffix = ".docx" /\ lib.docx
    THEN [raised |-> ~path.readable, text |-> IF path.readable THEN path.text ELSE << >>]
    ELSE [raised |-> FALSE, text |-> IF path.readable THEN path.raw ELSE << >>]

\* ingest.py:120   not text or len(text.strip()) < 20
TooShort(text) == text = << >> \/ Len(Strip(text)) < MIN_TEXT_CHARS

\* chunk ordinals counted from 1 (enumerate(chunks, 1))
FileMeta_OneBased(name, cs) ==
    [i \in 1..Len(cs) |-> [source |-> name, chunk_id |-> i, text_start |-> "None"]]

\* ingest.py:123-125   the metadata of the chunks of one file
FileMeta(name, cs) ==
    [i \in 1..Len(cs) |-> [source |-> name, chunk_id |-> i - 1, text_start |-> "None"]]

\* main without the early return of lines 113-115
StartMain_NoEarlyReturn ==
    /\ m_pc \in { "idle", "done", "returned", "raised" }
    /\ run < MaxRuns
    /\ run' = run + 1
    /\ \E files \in AllDocsDirs, e \in Envs :
         /\ docs_dir' = files
         /\ env' = e
    /\ m_pc' = "loop"
    /\ m_error' = ""
    /\ m_i' = 1
    /\ all_texts' = << >>
    /\ meta' = << >>
    /\ embed_calls' = 0
    /\ UNCHANGED << libs, disk >>
    /\ UNCHANGED << chunkVars, appVars >>

\* ingest.py:112-117
StartMain ==
    /\ m_pc \in { "idle", "done", "returned", "raised" }
    /\ run < MaxRuns
    /\ run' = run + 1
    /\ \E files \in AllDocsDirs, e \in Envs :
         /\ docs_dir' = files
         /\ env' = e
         /\ m_pc' = IF files = << >> THEN "returned" ELSE "loop"
    /\ m_error' = ""
    /\ m_i' = 1
    /\ all_texts' = << >>
    /\ meta' = << >>
    /\ embed_calls' = 0
    /\ UNCHANGED << libs, disk >>
    /\ UNCHANGED << chunkVars, appVars >>

\* ingest.py:118-125, one iteration of the file loop
FileStep ==
    /\ m_pc = "loop"
    /\ m_i <= Len(docs_dir)
    /\ LET f == docs_dir[m_i]
           got == extract_text_from_file(f, libs)
           cs == ingest_chunk_text(got.text, CHUNK_SIZE_CHARS, CHUNK_OVERLAP)
       IN  IF got.raised
           THEN /\ m_pc' = "raised" /\ m_error' = "OSError"
                /\ UNCHANGED << m_i, all_texts, meta >>
           ELSE /\ m_i' = m_i + 1
                /\ UNCHANGED << m_pc, m_error >>
                /\ IF TooShort(got.text)
                   THEN UNCHANGED << all_texts, meta >>
                   ELSE /\ all_texts' = all_texts \o cs
                        /\ meta' = meta \o FileMeta(f.name, cs)
    /\ UNCHANGED << docs_dir, env, run, embed_calls, libs, disk >>
    /\ UNCHANGED << chunkVars, appVars >>

\* ingest.py:118 exhausted, 126
EndLoop ==
    /\ m_pc = "loop"
    /\ m_i > Len(docs_dir)
    /\ m_pc' = "embed"
    /\ UNCHANGED << docs_dir, env, m_error, run, m_i, all_texts, meta,
                    embed_calls, libs, disk >>
    /\ UNCHANGED << chunkVars, appVars >>

\* answers of the remote embedding endpoint, ingest.py:84-94
GeminiOutcomes == { "ok", "http_error", "no_data" }

\* the remote call made before the key is looked at
Embed_CallBeforeKeyCheck ==
    /\ m_pc = "embed"
    /\ embed_calls' = embed_calls + 1
    /\ IF env.USE_GEMINI /\ ~env.GEMINI_API_KEY
       THEN m_pc' = "raised" /\ m_error' = "RuntimeError"
       ELSE IF all_texts = << >>
       THEN m_pc' = "raised" /\ m_error' = "IndexError"
       ELSE m_pc' = "write_index" /\ m_error' = m_error
    /\ UNCHANGED << docs_dir, env, run, m_i, all_texts, meta, libs, disk >>
    /\ UNCHANGED << chunkVars, appVars >>

\* ingest.py:129-144: the key check, the embedding call, the normalisation.
\* With no text to embed numpy has no rows to stack (np.vstack, line 95) and
\* the local result has no second dimension (normalize_L2, line 144).
Embed ==
    /\ m_pc = "embed"
    /\ IF env.USE_GEMINI /\ ~env.GEMINI_API_KEY
       THEN /\ m_pc' = "raised" /\ m_error' = "RuntimeError"
            /\ UNCHANGED embed_calls
       ELSE /\ embed_calls' = embed_calls + 1
            /\ IF env.USE_GEMINI
               THEN \E answer \in GeminiOutcomes :
                      IF answer = "http_error"
                      THEN m_pc' = "raised" /\ m_error' = "HTTPError"
                      ELSE IF answer = "no_data"
                      THEN m_pc' = "raised" /\ m_error' = "RuntimeError"
                      ELSE IF all_texts = << >>
                      THEN m_pc' = "raised" /\ m_error' = "ValueError"
                      ELSE m_pc' = "write_index" /\ m_error' = m_error
               ELSE IF all_texts = << >>
                    THEN m_pc' = "raised" /\ m_error' = "IndexError"
                    ELSE m_pc' = "write_index" /\ m_error' = m_error
    /\ UNCHANGED << docs_dir, env, run, m_i, all_texts, meta, libs, disk >>
    /\ UNCHANGED << chunkVars, appVars >>

\* a file that exists is left as it is
WriteFile_KeepExisting(d, name, r, data) ==
    IF d[name].run = 0 THEN [d EXCEPT ![name] = [run |-> r, data |-> data]] ELSE d

\* faiss.write_index / np.save / json.dump: the file is replaced
WriteFile(d, name, r, data) == [d EXCEPT ![name] = [run |-> r, data |-> data]]

\* ingest.py:145 and build_faiss 98-105: one vector per text
WriteIndex ==
    /\ m_pc = "write_index"
    /\ disk' = WriteFile(disk, "index", run, Len(all_texts))
    /\ m_pc' = "write_meta"
    /\ UNCHANGED << docs_dir, env, m_error, run, m_i, all_texts, meta,
                    embed_calls, libs >>
    /\ UNCHANGED << chunkVars, appVars >>

\* ingest.py:146 and save_meta 107-109
WriteMeta ==
    /\ m_pc = "write_meta"
    /\ disk' = WriteFile(disk, "meta", run, meta)
    /\ m_pc' = "write_chunks"
    /\ UNCHANGED << docs_dir, env, m_error, run, m_i, all_texts, meta,
                    embed_calls, libs >>
    /\ UNCHANGED << chunkVars, appVars >>

\* ingest.py:148-150
WriteChunks ==
    /\ m_pc = "write_chunks"
    /\ disk' = WriteFile(disk, "chunks", run, all_texts)
    /\ m_pc' = "done"
    /\ UNCHANGED << docs_dir, env, m_error, run, m_i, all_texts, meta,
                    embed_calls, libs >>
    /\ UNCHANGED << chunkVars, appVars >>

MainNext ==
    StartMain \/ FileStep \/ EndLoop \/ Embed \/ WriteIndex \/ WriteMeta \/ WriteChunks

(***************************************************************************)
(* Specifications                                                          *)
(***************************************************************************)
\* direct calls chunk_text(text, size) and chunk_text(text, chunk_size, overlap)
InitChunk ==
    /\ in_text \in TextsUpTo(MaxLen)
    /\ in_size \in 1..MaxChunk
    /\ in_overlap \in 0..(in_size - 1)
    /\ app_pc = "call" /\ app_result = << >>
    /\ ct_pc = "call" /\ ct_text = << >> /\ ct_start = 0
    /\ ct_chunks = << >> /\ ct_result = << >>
    /\ NoApp /\ NoIngest

\* streamlit starts app.py on some docs/ folder
InitApp ==
    /\ folder \in AllFolders
    /\ ui_pc = "start" /\ ui_error = "" /\ documents = << >> /\ chunks = << >>
    /\ query = << >> /\ q_emb = << 0, 0 >> /\ top_k = 0 /\ retrieved = << >>
    /\ context_text = << >> /\ answered = FALSE
    /\ NoChunkCall /\ NoIngest

\* python ingest.py is run some number of times on a fresh disk
InitIngest ==
    /\ docs_dir = << >> /\ env = [USE_GEMINI |-> FALSE, GEMINI_API_KEY |-> FALSE]
    /\ m_pc = "idle" /\ m_error = "" /\ run = 0 /\ m_i = 0
    /\ all_texts = << >> /\ meta = << >> /\ embed_calls = 0
    /\ libs \in Libs
    /\ disk = [a \in Artifacts |-> NoFile]
    /\ NoChunkCall /\ NoApp

ChunkNext == AppChunkText \/ CtNext

SpecChunk == InitChunk /\ [][ChunkNext]_vars
SpecChunkFair == InitChunk /\ [][ChunkNext]_vars /\ WF_vars(ChunkNext)
SpecApp == InitApp /\ [][AppNext]_vars
SpecIngest == InitIngest /\ [][MainNext]_vars

Init == InitChunk \/ InitApp \/ InitIngest
Next == ChunkNext \/ AppNext \/ MainNext
Spec == Init /\ [][Next]_vars

(***************************************************************************)
(* Properties of the chunkers (SpecChunk, SpecChunkFair)                   *)
(***************************************************************************)
AppReturned == app_pc = "returned"
CtReturned == ct_pc = "returned"

\* C1: every chunk of app.chunk_text(text, size) has at most size words, and
\* every chunk of ingest.chunk_text(text, chunk_size, overlap) has at most
\* chunk_size characters (size, chunk_size >= 1, 0 <= overlap < chunk_size).
C1_LengthBounded ==
    /\ AppReturned =>
         \A i \in 1..Len(app_result) : Len(Split(app_result[i])) <= in_size
    /\ ct_pc = "loop" =>
         \A i \in 1..Len(ct_chunks) : Len(ct_chunks[i]) <= in_size
    /\ CtReturned =>
         \A i \in 1..Len(ct_result) : Len(ct_result[i]) <= in_size

\* both chunkers returned several chunks, and a word window of the full
\* size holds more than one word
C1_Witness ==
    /\ AppReturned /\ Len(app_result) >= 2 /\ in_size >= 2
    /\ \E i \in 1..Len(app_result) : Len(Split(app_result[i])) = in_size
    /\ CtReturned /\ Len(ct_result) >= 2

RECURSIVE DropOverlaps(_, _, _)
\* chunk i and the later ones, each without its first overlap characters
DropOverlaps(cs, overlap, i) ==
    IF i > Len(cs) THEN << >>
    ELSE SubSeq(cs[i], overlap + 1, Len(cs[i])) \o DropOverlaps(cs, overlap, i + 1)

\* the first chunk in full, then every later chunk without its overlap
Reassemble(cs, overlap) ==
    IF cs = << >> THEN << >> ELSE cs[1] \o DropOverlaps(cs, overlap, 2)

\* C2: the chunks of ingest.chunk_text, the first in full and every later one
\* without its first overlap characters, concatenate to the normalized text.
C2_Reconstructs ==
    CtReturned => Reassemble(ct_result, in_overlap) = Normalize(in_text)

\* C4: for the empty text and for text made only of whitespace both chunkers
\* return a sequence of zero chunks.
C4_EmptyYieldsEmpty ==
    Strip(in_text) = << >> =>
        /\ AppReturned => app_result = << >>
        /\ CtReturned => ct_result = << >>

\* C9: ingest.chunk_text returns for every text, chunk_size >= 1 and
\* 0 <= overlap < chunk_size, and the window start grows in every iteration.
C9_Terminates ==
    /\ <>CtReturned
    /\ [][ct_chunks' # ct_chunks => ct_start' > ct_start]_vars

\* the loop is in its third iteration or later, with overlapping windows
C9_Witness ==
    /\ ct_pc = "loop" /\ Len(ct_chunks) >= 2 /\ in_overlap >= 1
    /\ LoopCond(ct_text, ct_start)

(***************************************************************************)
(* Properties of the interactive path (SpecApp)                            *)
(***************************************************************************)
Score(c) == cosine_similarity(q_emb, c.embedding)

\* a retrieve call has returned
Retrieved == ui_pc = "ready" /\ query # << >>

\* C3: for 1 <= k <= number of chunks, retrieve(query, top_k=k) returns
\* exactly k chunks, all distinct entries of the collection, and the first
\* one scores at least as high as every chunk of the collection.
C3_TopK ==
    (Retrieved /\ 1 <= top_k /\ top_k <= Len(chunks)) =>
        /\ Len(retrieved) = top_k
        /\ \A j \in 1..Len(retrieved) :
             \E i \in 1..Len(chunks) : retrieved[j] = chunks[i]
        /\ \A j, l \in 1..Len(retrieved) : j # l => retrieved[j] # retrieved[l]
        /\ \A i \in 1..Len(chunks) : Score(retrieved[1]) >= Score(chunks[i])

\* three of four chunks were asked for, the first chunk of the collection
\* is not the best one, and the scores of the returned chunks differ
C3_Witness ==
    /\ Retrieved /\ top_k = 3 /\ Len(chunks) = 4 /\ Len(retrieved) = 3
    /\ Score(chunks[1]) < Score(chunks[2])
    /\ Score(retrieved[1]) > Score(retrieved[3])

\* the entries of docs/ that load_documents keeps
TxtEntries ==
    { i \in 1..Len(folder.entries) :
        folder.entries[i].isfile /\ folder.entries[i].name[2] = ".txt" }

TheTxt == folder.entries[CHOOSE i \in TxtEntries : TRUE]

\* docs/ holds exactly one .txt file, of 1 to 300 words
OneSmallTxt ==
    /\ folder.exists
    /\ Cardinality(TxtEntries) = 1
    /\ Len(Split(TheTxt.content)) \in 1..DEFAULT_SIZE

\* C8: with exactly one .txt file of n words, 1 <= n <= 300, the start-up
\* builds one chunk holding the n words in order, and every non-empty query
\* retrieves that chunk with top_k=1 and passes only its text as context.
C8_SingleChunk ==
    (OneSmallTxt /\ ui_pc = "ready") =>
        /\ Len(chunks) = 1
        /\ chunks[1].doc = TheTxt.name
        /\ Split(chunks[1].chunk) = Split(TheTxt.content)
        /\ answered =>
             /\ top_k = DEFAULT_TOP_K
             /\ retrieved = << chunks[1] >>
             /\ context_text = chunks[1].chunk

\* a file of exactly 300 words next to an entry that is no .txt file, queried
C8_Witness ==
    /\ OneSmallTxt /\ ui_pc = "ready" /\ answered
    /\ Len(folder.entries) = 2
    /\ Len(Split(TheTxt.content)) = DEFAULT_SIZE

(***************************************************************************)
(* Properties of the offline path (SpecIngest)                             *)
(***************************************************************************)
Running == m_pc \notin { "off", "idle" }
Ended == m_pc \in { "done", "returned", "raised" }
Writing == m_pc \in { "write_index", "write_meta", "write_chunks" }

WrittenThisRun(a) == disk[a].run = run

FileText(i) == extract_text_from_file(docs_dir[i], libs).text
ExtractionRaises(i) == extract_text_from_file(docs_dir[i], libs).raised
AllExtracted == \A i \in 1..Len(docs_dir) : ~ExtractionRaises(i)

\* remote embeddings selected and no API key
KeyMissingRun == Running /\ env.USE_GEMINI /\ ~env.GEMINI_API_KEY

\* C6 as stated: with USE_GEMINI and no GEMINI_API_KEY every run, whatever
\* docs/ holds, ends in RuntimeError, with no embedding call made and no
\* artifact written by the run.
C6_KeyMissingAlwaysRaises ==
    KeyMissingRun =>
        /\ embed_calls = 0
        /\ \A a \in Artifacts : ~WrittenThisRun(a)
        /\ Ended => (m_pc = "raised" /\ m_error = "RuntimeError")

\* C6 amended: with USE_GEMINI and no GEMINI_API_KEY a run makes no embedding
\* call and writes no artifact; it ends in RuntimeError when docs/ holds a
\* file and every extraction returns; it returns normally when docs/ is
\* empty, and ends with the exception of an extraction that raises.
C6_KeyMissing ==
    KeyMissingRun =>
        /\ embed_calls = 0
        /\ \A a \in Artifacts : ~WrittenThisRun(a)
        /\ ~Writing /\ m_pc # "done"
        /\ m_pc = "returned" => docs_dir = << >>
        /\ m_pc = "raised" =>
             \/ m_error = "RuntimeError" /\ docs_dir # << >> /\ AllExtracted
             \/ m_error = "OSError" /\ ExtractionRaises(m_i)
        /\ (Ended /\ docs_dir # << >> /\ AllExtracted) =>
             (m_pc = "raised" /\ m_error = "RuntimeError")

\* the second run stops at the key check, the artifacts of the first stay
C6_Witness ==
    /\ KeyMissingRun /\ m_pc = "raised" /\ m_error = "RuntimeError"
    /\ Len(all_texts) >= 2
    /\ run = 2 /\ \A a \in Artifacts : disk[a].run = 1

\* C7 as stated: every run that finishes without raising has written all
\* three artifacts in that run.
C7_EveryQuietRunWrites ==
    m_pc \in { "done", "returned" } => \A a \in Artifacts : WrittenThisRun(a)

\* C7 amended: every run that reaches the end of main has written all three
\* artifacts in that run; a run that finds docs/ empty returns without
\* raising and has written none of them.
C7_Overwrites ==
    /\ m_pc = "done" =>
         /\ \A a \in Artifacts : WrittenThisRun(a)
         /\ disk["index"].data = Len(all_texts)
         /\ disk["meta"].data = meta
         /\ disk["chunks"].data = all_texts
    /\ m_pc = "returned" =>
         /\ docs_dir = << >>
         /\ \A a \in Artifacts : ~WrittenThisRun(a)

\* a second run has replaced all three artifacts
C7_Witness ==
    /\ m_pc = "done" /\ run = 2
    /\ \A a \in Artifacts : WrittenThisRun(a)
    /\ Len(disk["chunks"].data) >= 2

\* what extraction can return for the files of the model, and the chunks
\* ingest.chunk_text makes of each with the default size and overlap
ExtractedTexts ==
    { k.text : k \in FileKinds } \cup { k.raw : k \in FileKinds }

DefaultChunks ==
    [t \in ExtractedTexts |-> ingest_chunk_text(t, CHUNK_SIZE_CHARS, CHUNK_OVERLAP)]

\* the meta entries of file i
EntriesOf(i) == { j \in 1..Len(meta) : meta[j].source = docs_dir[i].name }

\* C10: all_texts and meta stay aligned through the file loop: equal length,
\* entry j of meta names the file of text j, chunk_id runs 0, 1, ..., m-1
\* within a file in the chunker's order, and a file whose stripped text has
\* fewer than 20 characters adds no entry.
C10_Aligned ==
    (Running /\ m_pc # "returned") =>
        /\ Len(all_texts) = Len(meta)
        /\ \A j \in 1..Len(meta) :
             /\ meta[j].chunk_id =
                  (IF j > 1 /\ meta[j - 1].source = meta[j].source
                   THEN meta[j - 1].chunk_id + 1 ELSE 0)
             /\ \E i \in 1..(m_i - 1) : meta[j].source = docs_dir[i].name
        /\ \A i \in 1..(m_i - 1) :
             LET cs == DefaultChunks[FileText(i)]
             IN  IF Len(Strip(FileText(i))) < MIN_TEXT_CHARS
                 THEN EntriesOf(i) = { }
                 ELSE /\ Cardinality(EntriesOf(i)) = Len(cs)
                      /\ \A j \in EntriesOf(i) :
                           all_texts[j] = cs[meta[j].chunk_id + 1]

\* a file too short after stripping was skipped, the next one gave two chunks
C10_Witness ==
    /\ m_pc = "loop" /\ m_i = 3
    /\ FileText(1) # << >> /\ Len(Strip(FileText(1))) < MIN_TEXT_CHARS
    /\ Len(meta) = 2 /\ meta[2].chunk_id = 1

C5_WitnessIngest ==
    /\ m_pc = "returned" /\ docs_dir = << >> /\ run = 2
    /\ \A a \in Artifacts : disk[a].run = 1

====
